---- MODULE Spec2Model ----
(***************************************************************************)
(* A model of the teletherapist bot: the SQLite-backed ConversationDB      *)
(* (src/database.py) and the message pipeline handle_message (src/main.py) *)
(* with its two external services (src/audio_handler.py,                   *)
(* src/claude_client.py).                                                  *)
(*                                                                         *)
(* The specifications share the table and the clock:                       *)
(*   SpecStore   the methods of ConversationDB run by the executor's       *)
(*               worker threads, statement by statement, each inside the   *)
(*               transaction that `with self._get_conn() as conn` opens;   *)
(*   Spec        the handlers of main.py, one action per await, commands   *)
(*               interleaving with a suspended handle_message;             *)
(*   SpecSerial  the same handlers, one update handled at a time;          *)
(*   SpecFair    Spec, every suspended handle_message resumed in the end.  *)
(*   SpecConcurrent  two texts of one user, their handlers interleaving;   *)
(*   SpecSuccessive  two texts of one user, handled one after the other;   *)
(*   SpecPool    the executor's threads and their connections.             *)
(***************************************************************************)
EXTENDS Integers, Sequences, FiniteSets

(***************************************************************************)
(* Bounds of the model.                                                    *)
(***************************************************************************)
\* the largest row id the store assigns under SpecStore
MaxId == 2
\* the seconds that pass
MaxClock == 1
\* the /setprompt and /clear commands handled beside the message
MaxCommands == 1
\* the awaited calls that raise
MaxFaults == 3

\* get_conversation_history's default limit
DefaultLimit == 10

(***************************************************************************)
(* Values.                                                                 *)
(***************************************************************************)
Users == {1, 2}
NoneVal == "None"
\* what main.py passes to add_message: the user's text with role user (line 55)
\* and the completion with role assistant (line 72)
Texts == {"Hello"}
Responses == {"Hi!"}
Appended == {<<"user", c>> : c \in Texts} \cup {<<"assistant", c>> : c \in Responses}
Prompts == {"A", "B"}
Limits == {0, 1, DefaultLimit}
RunIds == {1}
\* the updates of one user handled in SpecConcurrent and SpecSuccessive, and the
\* text of each
Updates == {1, 2}
Said == <<"Hello", "Are you there?">>
\* the thread that imports main.py and runs the event loop, and the worker threads
\* of the loop's default executor
MainThread == 0
Workers == {1, 2}
Threads == {MainThread} \cup Workers
\* the methods of ConversationDB that run their inner function in the executor
Methods == {"add_message", "get_conversation_history", "clear_user_history",
            "set_user_prompt", "get_user_prompt"}
Transcripts == {"Spoken"}

VARIABLES
    db,        \* the committed rows of table conversations, in rowid order
    clock,     \* CURRENT_TIMESTAMP, in seconds
    txn,       \* the method whose transaction holds the write lock of the file
    pending,   \* the table as the connection of that transaction sees it
    lastCall   \* what the step just taken returned to its caller, if it returned

storeVars == <<db, clock, txn, pending, lastCall>>

VARIABLES
    runs,      \* per update handled by handle_message: its locals, where it is
               \* suspended, and the calls it has made so far
    commands,  \* how many /setprompt and /clear commands were handled
    faults     \* how many awaited calls have raised

pipeVars == <<runs, commands, faults>>

VARIABLES
    local,     \* per thread: the connection self._local.conn names, 0 without one
    conns,     \* the connections sqlite3.connect has returned, in order: the thread
               \* that created each, the threads that used it, whether it is closed
    job        \* per worker thread of the executor: the inner function it runs

poolVars == <<local, conns, job>>
vars == <<storeVars, pipeVars, poolVars>>

(***************************************************************************)
(* Sequences.                                                              *)
(***************************************************************************)
Range(s) == {s[i] : i \in 1..Len(s)}

Reverse(s) == [i \in 1..Len(s) |-> s[Len(s) + 1 - i]]

\* LIMIT n of a result set, n >= 0
Take(s, n) == IF n >= Len(s) THEN s ELSE SubSeq(s, 1, n)

\* the last n elements of s
LastN(s, n) == IF n >= Len(s) THEN s ELSE SubSeq(s, Len(s) - n + 1, Len(s))

Orderings(n) == {p \in [1..n -> 1..n] : \A i, j \in 1..n : i # j => p[i] # p[j]}

SetMax(S) == CHOOSE x \in S : \A y \in S : y <= x

(***************************************************************************)
(* The table and its statements.                                           *)
(***************************************************************************)
\* id INTEGER PRIMARY KEY is the rowid: one more than the largest in the table
NextId(t) == IF t = <<>> THEN 1 ELSE SetMax({r.id : r \in Range(t)}) + 1

\* INSERT INTO conversations (user_id, role, content): timestamp defaults to
\* CURRENT_TIMESTAMP
Insert(t, u, role, content, now) ==
    Append(t, [id |-> NextId(t), user_id |-> u, role |-> role,
               content |-> content, timestamp |-> now])

\* a DELETE whose WHERE clause is lost
DeleteEveryUser(t, u) == <<>>

\* a clear that keeps the prompt: DELETE ... WHERE user_id = ? AND role != "system"
DeleteUserMessages(t, u) == SelectSeq(t, LAMBDA r : r.user_id # u \/ r.role = "system")

\* DELETE FROM conversations WHERE user_id = ?
DeleteUser(t, u) == SelectSeq(t, LAMBDA r : r.user_id # u)

\* a _set_prompt that appends the new prompt and keeps the old rows
DeleteNoSystem(t, u) == t

\* DELETE FROM conversations WHERE user_id = ? AND role = "system"
DeleteSystem(t, u) == SelectSeq(t, LAMBDA r : ~(r.user_id = u /\ r.role = "system"))

\* a history that leaves the prompt out: WHERE user_id = ? AND role != "system"
UserRowsNoSystem(t, u) == SelectSeq(t, LAMBDA r : r.user_id = u /\ r.role # "system")

\* WHERE user_id = ?
UserRows(t, u) == SelectSeq(t, LAMBDA r : r.user_id = u)

\* WHERE user_id = ? AND role = "system"
SystemRows(t, u) == SelectSeq(t, LAMBDA r : r.user_id = u /\ r.role = "system")

\* ORDER BY timestamp DESC: every order of the rows in which the timestamps
\* never increase; SQL leaves the order of rows with equal timestamps open
OrderByTimestampDesc(rows) ==
    {[i \in 1..Len(rows) |-> rows[p[i]]] : p \in
        {q \in Orderings(Len(rows)) :
            \A i, j \in 1..Len(rows) :
                i < j => rows[q[i]].timestamp >= rows[q[j]].timestamp}}

\* SELECT role, content, and the dict built of each row
Message(r) == [role |-> r.role, content |-> r.content]

Messages(rows) == [i \in 1..Len(rows) |-> Message(rows[i])]

\* the lists _get_history can return
HistoryResults(t, u, limit) ==
    {Messages(Reverse(Take(s, limit))) : s \in OrderByTimestampDesc(UserRows(t, u))}

\* the values _get_prompt can return
PromptResults(t, u) ==
    IF SystemRows(t, u) = <<>> THEN {NoneVal}
    ELSE {s[1].content : s \in OrderByTimestampDesc(SystemRows(t, u))}

\* a connection that commits every statement at once (isolation_level=None)
SnapshotAutocommit(committed, uncommitted) == uncommitted

\* the rows other connections read while a transaction is open: `with conn`
\* commits on leaving the block, not before
Snapshot(committed, uncommitted) == committed

(***************************************************************************)
(* ConversationDB.  Each method runs its inner function on a worker thread *)
(* of the executor, on that thread's own connection, inside the            *)
(* transaction of `with self._get_conn() as conn`.  The database file has  *)
(* one write lock: a connection takes it at its first writing statement    *)
(* and gives it up at COMMIT or ROLLBACK, so at most one transaction that  *)
(* has written is open at a time; the other connections read meanwhile.    *)
(* A call and its first statement are one step.                            *)
(***************************************************************************)
NoTxn == [op |-> "idle", user |-> 0, content |-> "", pc |-> "idle"]

\* before: the caller's committed messages when a writing method committed
NoCall == [op |-> "none", user |-> 0, content |-> "", limit |-> 0, ok |-> TRUE,
           result |-> <<>>, before |-> <<>>]

\* an update that handle_message has not been called for yet
NoRun == [pc |-> "idle", user |-> 0, kind |-> "", user_input |-> "",
          processing_msg |-> FALSE, system_prompt |-> NoneVal,
          conversation_history |-> <<>>, response |-> "", error |-> <<>>,
          status |-> "", trace |-> <<>>]

\* a worker thread that runs nothing
NoJob == [method |-> "none", pc |-> "idle", conn |-> 0]

\* sqlite3.connect(self.db_path) called on thread t
Connect(t) == Append(conns, [by |-> t, users |-> {}, closed |-> FALSE])

\* db = ConversationDB() at import, before any update is handled: __init__ has
\* created the table on a connection of the importing thread
Init ==
    /\ db = <<>>
    /\ clock = 0
    /\ txn = NoTxn
    /\ pending = <<>>
    /\ lastCall = NoCall
    /\ runs = [r \in Updates |-> NoRun]
    /\ commands = 0
    /\ faults = 0
    /\ local = [t \in Threads |-> IF t = MainThread THEN 1 ELSE 0]
    /\ conns = <<[by |-> MainThread, users |-> {MainThread}, closed |-> FALSE]>>
    /\ job = [w \in Workers |-> NoJob]

\* a writing statement leaves table t in the connection of transaction j
Write(t, j) ==
    /\ pending' = t
    /\ db' = Snapshot(db, t)
    /\ txn' = j
    /\ lastCall' = NoCall
    /\ UNCHANGED <<clock, pipeVars, poolVars>>

\* _add_message up to its INSERT
add_message(u, role, content) ==
    /\ txn = NoTxn
    /\ NextId(db) <= MaxId
    /\ Write(Insert(db, u, role, content, clock),
             [op |-> "add_message", user |-> u, content |-> content, pc |-> "commit"])

\* _clear_history up to its DELETE
clear_user_history(u) ==
    /\ txn = NoTxn
    /\ Write(DeleteUser(db, u),
             [op |-> "clear_user_history", user |-> u, content |-> "", pc |-> "commit"])

\* _set_prompt up to its DELETE of the old system rows
set_user_prompt(u, prompt) ==
    /\ txn = NoTxn
    /\ NextId(DeleteSystem(db, u)) <= MaxId
    /\ Write(DeleteSystem(db, u),
             [op |-> "set_user_prompt", user |-> u, content |-> prompt, pc |-> "insert"])

\* _set_prompt: the INSERT of the new system row
SetPromptInsert ==
    /\ txn.op = "set_user_prompt" /\ txn.pc = "insert"
    /\ Write(Insert(pending, txn.user, "system", txn.content, clock),
             [txn EXCEPT !.pc = "commit"])

\* leaving `with conn` normally: COMMIT, and the method returns
Commit ==
    /\ txn.pc = "commit"
    /\ db' = pending
    /\ pending' = <<>>
    /\ txn' = NoTxn
    /\ lastCall' = [NoCall EXCEPT !.op = txn.op, !.user = txn.user,
                                  !.content = txn.content,
                                  !.before = Messages(UserRows(db, txn.user))]
    /\ UNCHANGED <<clock, pipeVars, poolVars>>

\* a later statement or the commit raises (disk I/O error): `with conn` rolls the
\* transaction back and the exception reaches the caller
Rollback ==
    /\ txn # NoTxn
    /\ pending' = <<>>
    /\ txn' = NoTxn
    /\ lastCall' = [NoCall EXCEPT !.op = txn.op, !.user = txn.user,
                                  !.content = txn.content, !.ok = FALSE]
    /\ UNCHANGED <<db, clock, pipeVars, poolVars>>

\* the first statement of a method raises (database is locked, disk I/O error)
Raise ==
    /\ lastCall' = [NoCall EXCEPT !.op = "raise", !.ok = FALSE]
    /\ UNCHANGED <<db, clock, txn, pending, pipeVars, poolVars>>

\* _get_history on another connection: the SELECT, reversed
get_conversation_history(u, limit) ==
    /\ \E h \in HistoryResults(db, u, limit) :
           lastCall' = [NoCall EXCEPT !.op = "get_conversation_history", !.user = u,
                                      !.limit = limit, !.result = h]
    /\ UNCHANGED <<db, clock, txn, pending, pipeVars, poolVars>>

\* _get_prompt on another connection: the SELECT ... LIMIT 1
get_user_prompt(u) ==
    /\ \E p \in PromptResults(db, u) :
           lastCall' = [NoCall EXCEPT !.op = "get_user_prompt", !.user = u,
                                      !.result = p]
    /\ UNCHANGED <<db, clock, txn, pending, pipeVars, poolVars>>

\* a second passes
Tick ==
    /\ clock < MaxClock
    /\ clock' = clock + 1
    /\ lastCall' = NoCall
    /\ UNCHANGED <<db, txn, pending, pipeVars, poolVars>>

NextStore ==
    \/ \E u \in Users, m \in Appended : add_message(u, m[1], m[2])
    \/ \E u \in Users, n \in Limits : get_conversation_history(u, n)
    \/ \E u \in Users : clear_user_history(u)
    \/ \E u \in Users, p \in Prompts : set_user_prompt(u, p)
    \/ \E u \in Users : get_user_prompt(u)
    \/ SetPromptInsert
    \/ Commit
    \/ Rollback
    \/ Raise
    \/ Tick

SpecStore == Init /\ [][NextStore]_vars

(***************************************************************************)
(* The store's contract (spec.md 3, 4.1, 8), under SpecStore.              *)
(***************************************************************************)
Returned(op) == lastCall.op = op /\ lastCall.ok

\* C1: GetHistory(U, 10) returns the messages of U in exactly the order they were
\* appended, also when several of them carry the same timestamp.
C1_HistoryInAppendOrder ==
    (Returned("get_conversation_history") /\ lastCall.limit = DefaultLimit)
        => lastCall.result = Messages(UserRows(db, lastCall.user))

\* C2: GetHistory(U, N) returns at most N entries, exactly the N most recently
\* appended rows of U (all of them if U has fewer), oldest first.
C2_HistoryMostRecent ==
    Returned("get_conversation_history")
        => /\ Len(lastCall.result) <= lastCall.limit
           /\ lastCall.result = Messages(LastN(UserRows(db, lastCall.user), lastCall.limit))

\* C3: once SetSystemPrompt(U, B) has returned, exactly one system row exists for U
\* and GetSystemPrompt(U) can only return B, whatever prompt was set before;
\* GetSystemPrompt(U) returns the content of U's system row, and the absent value
\* when U has none.
C3_PromptReplace ==
    /\ Returned("set_user_prompt")
           => /\ Len(SystemRows(db, lastCall.user)) = 1
              /\ PromptResults(db, lastCall.user) = {lastCall.content}
    /\ Returned("get_user_prompt")
           => lastCall.result =
                  IF SystemRows(db, lastCall.user) = <<>> THEN NoneVal
                  ELSE SystemRows(db, lastCall.user)[1].content

\* SetSystemPrompt(U, "B") has just replaced the prompt "A" of U
C3_Witness ==
    /\ Returned("set_user_prompt")
    /\ lastCall.content = "B"
    /\ lastCall.before = <<[role |-> "system", content |-> "A"]>>
    /\ PromptResults(db, lastCall.user) = {"B"}

\* C4: the delete and the insert of SetSystemPrompt take effect as one step for the
\* other connections: the committed table never holds two system rows of a user,
\* and a user's system row disappears from it only by a ClearHistory of that user,
\* never in the middle of a SetSystemPrompt.
C4_PromptReplaceAtomic ==
    /\ [](\A u \in Users : Len(SystemRows(db, u)) <= 1)
    /\ [][\A u \in Users :
              (SystemRows(db, u) # <<>> /\ SystemRows(db', u) = <<>>)
                  => (lastCall'.op = "clear_user_history" /\ lastCall'.user = u)]_vars

\* a reader gets the old prompt of U while SetSystemPrompt(U, ..) has deleted it in
\* its transaction and not yet inserted the new one
C4_Witness ==
    /\ txn.op = "set_user_prompt" /\ txn.pc = "insert"
    /\ SystemRows(pending, txn.user) = <<>>
    /\ Returned("get_user_prompt") /\ lastCall.user = txn.user
    /\ lastCall.result \in Prompts

\* C5: a store method called for one user leaves the rows of every other user as
\* they are, so what GetHistory and GetSystemPrompt return for the others does not
\* change; and a ClearHistory(U) that returned has removed every row of U.
C5_Isolation ==
    /\ [][\A u \in Users :
              (db' # db /\ lastCall'.user # u)
                  => /\ UserRows(db', u) = UserRows(db, u)
                     /\ \A n \in Limits : HistoryResults(db', u, n) = HistoryResults(db, u, n)
                     /\ PromptResults(db', u) = PromptResults(db, u)]_vars
    /\ [](Returned("clear_user_history") => UserRows(db, lastCall.user) = <<>>)

\* ClearHistory(U1) has just removed rows of U1 while another user has rows
C5_Witness ==
    /\ Returned("clear_user_history")
    /\ lastCall.before # <<>>
    /\ \E u \in Users : u # lastCall.user /\ UserRows(db, u) # <<>>

(***************************************************************************)
(* main.py: handle_message and the command handlers.  A handler is a       *)
(* coroutine: it runs from one await to the next in one step, and other    *)
(* handlers may run while it is suspended.  Each await of a db method is   *)
(* one transaction (SpecStore); each awaited call may raise.               *)
(***************************************************************************)
\* str(e) of what the awaited calls raise, as a list of text fragments
TelegramError == <<"Timed out">>
DatabaseError == <<"database is locked">>
WhisperError == <<"Failed to load audio">>
AnthropicError == <<"Overloaded">>

\* get_claude_response: raise Exception(f"Error getting Claude response: {e}")
ClaudeError(e) == <<"Error getting Claude response: ">> \o e

\* a notification that leaves the error out
FailureTextGeneric(e) == <<"Sorry, there was an error processing your message.">>

\* f"Sorry, there was an error processing your message: {str(e)}"
FailureText(e) == <<"Sorry, there was an error processing your message: ">> \o e

\* f"Transcription:\n{user_input}"
TranscriptionText(t) == <<"Transcription:\n", t>>

\* text e occurs in text s
Contains(s, e) == \E i \in 1..Len(s) : i + Len(e) - 1 <= Len(s) /\ SubSeq(s, i, i + Len(e) - 1) = e

\* run r has made call `name` with argument arg, and it returned (ok) or raised
Called(r, name, arg, ok) ==
    Append(runs[r].trace, [call |-> name, arg |-> arg, ok |-> ok])

\* a handler that tries the failed call again instead of giving up
RaisedRetry(r, name, arg, e) ==
    [runs[r] EXCEPT !.trace = Called(r, name, arg, FALSE)]

\* the awaited call raised e: control passes to `except Exception as e`
Raised(r, name, arg, e) ==
    [runs[r] EXCEPT !.pc = "except", !.error = e, !.trace = Called(r, name, arg, FALSE)]

\* the awaited call of run r either returns, leaving the run as `next`, or raises e
Await(r, name, arg, next, e) ==
    \/ /\ runs' = [runs EXCEPT ![r] = [next EXCEPT !.trace = Called(r, name, arg, TRUE)]]
       /\ UNCHANGED faults
    \/ /\ faults < MaxFaults
       /\ faults' = faults + 1
       /\ runs' = [runs EXCEPT ![r] = Raised(r, name, arg, e)]

\* a handler without the `else: return`: whatever is not a voice note is taken for
\* a text
HandleMessageNoReturn(r, u, kind, text) ==
    /\ runs[r].pc = "idle"
    /\ runs' = [runs EXCEPT ![r] =
                   [NoRun EXCEPT !.user = u, !.kind = kind, !.user_input = text,
                                 !.pc = "reply_processing"]]
    /\ UNCHANGED <<storeVars, poolVars, commands, faults>>

\* the update reaches handle_message: which branch of the if takes it
handle_message(r, u, kind, text) ==
    /\ runs[r].pc = "idle"
    /\ runs' = [runs EXCEPT ![r] =
                   [NoRun EXCEPT !.user = u, !.kind = kind,
                                 !.user_input = text,
                                 !.pc = IF kind = "other" THEN "finally"
                                        ELSE "reply_processing",
                                 !.status = IF kind = "other" THEN "noop" ELSE ""]]
    /\ UNCHANGED <<storeVars, poolVars, commands, faults>>

\* processing_msg = await update.message.reply_text("Processing ...")
ReplyProcessing(r) ==
    /\ runs[r].pc = "reply_processing"
    /\ Await(r, "reply_processing", <<>>,
             [runs[r] EXCEPT !.processing_msg = TRUE,
                             !.pc = IF runs[r].kind = "text" THEN "add_user"
                                    ELSE "get_file"],
             TelegramError)
    /\ UNCHANGED <<storeVars, poolVars, commands>>

\* voice_note = await update.message.voice.get_file()
GetFile(r) ==
    /\ runs[r].pc = "get_file"
    /\ Await(r, "get_file", <<>>, [runs[r] EXCEPT !.pc = "transcribe"], TelegramError)
    /\ UNCHANGED <<storeVars, poolVars, commands>>

\* a transcription whose failure is logged and taken for an empty text
ProcessVoiceNoteSwallow(r) ==
    /\ runs[r].pc = "transcribe"
    /\ \/ \E t \in Transcripts :
              /\ runs' = [runs EXCEPT ![r].user_input = t, ![r].pc = "reply_transcription",
                                      ![r].trace = Called(r, "transcribe", t, TRUE)]
              /\ UNCHANGED faults
       \/ /\ faults < MaxFaults
          /\ faults' = faults + 1
          /\ runs' = [runs EXCEPT ![r].user_input = "", ![r].pc = "reply_transcription",
                                  ![r].trace = Called(r, "transcribe", "", FALSE)]
    /\ UNCHANGED <<storeVars, poolVars, commands>>

\* user_input = await process_voice_note(voice_note)
ProcessVoiceNote(r) ==
    /\ runs[r].pc = "transcribe"
    /\ \E t \in Transcripts :
           Await(r, "transcribe", t,
                 [runs[r] EXCEPT !.user_input = t, !.pc = "reply_transcription"],
                 WhisperError)
    /\ UNCHANGED <<storeVars, poolVars, commands>>

\* await update.message.reply_text(f"Transcription:\n{user_input}")
ReplyTranscription(r) ==
    /\ runs[r].pc = "reply_transcription"
    /\ Await(r, "reply_transcription", TranscriptionText(runs[r].user_input),
             [runs[r] EXCEPT !.pc = "add_user"], TelegramError)
    /\ UNCHANGED <<storeVars, poolVars, commands>>

\* await db.add_message(user_id, "user", user_input)
AddUserMessage(r) ==
    /\ runs[r].pc = "add_user"
    /\ Await(r, "add_user", runs[r].user_input,
             [runs[r] EXCEPT !.pc = "get_prompt"], DatabaseError)
    /\ db' = IF runs'[r].pc = "except" THEN db
             ELSE Insert(db, runs[r].user, "user", runs[r].user_input, clock)
    /\ UNCHANGED <<clock, txn, pending, lastCall, poolVars, commands>>

\* system_prompt = await db.get_user_prompt(user_id)
GetUserPrompt(r) ==
    /\ runs[r].pc = "get_prompt"
    /\ \E p \in PromptResults(db, runs[r].user) :
           Await(r, "get_prompt", p,
                 [runs[r] EXCEPT !.system_prompt = p, !.pc = "get_history"],
                 DatabaseError)
    /\ UNCHANGED <<storeVars, poolVars, commands>>

\* conversation_history = await db.get_conversation_history(user_id)
GetConversationHistory(r) ==
    /\ runs[r].pc = "get_history"
    /\ \E h \in HistoryResults(db, runs[r].user, DefaultLimit) :
           Await(r, "get_history", h,
                 [runs[r] EXCEPT !.conversation_history = h, !.pc = "edit_thinking"],
                 DatabaseError)
    /\ UNCHANGED <<storeVars, poolVars, commands>>

\* if processing_msg and processing_msg.text != "Thinking...": the text is one of
\* the two "Processing ..." texts here; try: edit_text, except: logged
EditThinking(r) ==
    /\ runs[r].pc = "edit_thinking"
    /\ \/ /\ runs' = [runs EXCEPT ![r].pc = "complete",
                                  ![r].trace = Called(r, "edit_thinking", <<>>, TRUE)]
          /\ UNCHANGED faults
       \/ /\ faults < MaxFaults
          /\ faults' = faults + 1
          /\ runs' = [runs EXCEPT ![r].pc = "complete",
                                  ![r].trace = Called(r, "edit_thinking", <<>>, FALSE)]
    /\ UNCHANGED <<storeVars, poolVars, commands>>

\* response = await get_claude_response(conversation_history, system_prompt)
GetClaudeResponse(r) ==
    /\ runs[r].pc = "complete"
    /\ \E a \in Responses :
           Await(r, "complete",
                 [history |-> runs[r].conversation_history,
                  system |-> runs[r].system_prompt],
                 [runs[r] EXCEPT !.response = a, !.pc = "add_assistant"],
                 ClaudeError(AnthropicError))
    /\ UNCHANGED <<storeVars, poolVars, commands>>

\* a handler that does not store the response
AddAssistantMessageLost(r) ==
    /\ runs[r].pc = "add_assistant"
    /\ Await(r, "add_assistant", runs[r].response,
             [runs[r] EXCEPT !.pc = "reply_response"], DatabaseError)
    /\ UNCHANGED <<storeVars, poolVars, commands>>

\* await db.add_message(user_id, "assistant", response)
AddAssistantMessage(r) ==
    /\ runs[r].pc = "add_assistant"
    /\ Await(r, "add_assistant", runs[r].response,
             [runs[r] EXCEPT !.pc = "reply_response"], DatabaseError)
    /\ db' = IF runs'[r].pc = "except" THEN db
             ELSE Insert(db, runs[r].user, "assistant", runs[r].response, clock)
    /\ UNCHANGED <<clock, txn, pending, lastCall, poolVars, commands>>

\* a final reply whose failure is logged and not reported to the user
ReplyResponseSwallow(r) ==
    /\ runs[r].pc = "reply_response"
    /\ \/ /\ runs' = [runs EXCEPT ![r].pc = "finally", ![r].status = "ok",
                                  ![r].trace = Called(r, "reply_response",
                                                      <<runs[r].response>>, TRUE)]
          /\ UNCHANGED faults
       \/ /\ faults < MaxFaults
          /\ faults' = faults + 1
          /\ runs' = [runs EXCEPT ![r].pc = "finally", ![r].status = "ok",
                                  ![r].trace = Called(r, "reply_response",
                                                      <<runs[r].response>>, FALSE)]
    /\ UNCHANGED <<storeVars, poolVars, commands>>

\* await update.message.reply_text(response): the last statement of the try
ReplyResponse(r) ==
    /\ runs[r].pc = "reply_response"
    /\ Await(r, "reply_response", <<runs[r].response>>,
             [runs[r] EXCEPT !.pc = "finally", !.status = "ok"], TelegramError)
    /\ UNCHANGED <<storeVars, poolVars, commands>>

\* a handler whose cleanup follows the try statement instead of being its finally
\* clause: an exception raised in the except clause skips it
ExceptNoFinally(r) ==
    /\ runs[r].pc = "except"
    /\ \/ /\ runs' = [runs EXCEPT ![r].pc = "finally", ![r].status = "failed",
                                  ![r].trace = Called(r, "reply_error",
                                                      FailureText(runs[r].error), TRUE)]
          /\ UNCHANGED faults
       \/ /\ faults < MaxFaults
          /\ faults' = faults + 1
          /\ runs' = [runs EXCEPT ![r].pc = "done", ![r].status = "raised",
                                  ![r].trace = Called(r, "reply_error",
                                                      FailureText(runs[r].error), FALSE)]
    /\ UNCHANGED <<storeVars, poolVars, commands>>

\* except Exception as e: log, then await reply_text(f"Sorry, ...: {str(e)}"); if
\* that raises too, the exception leaves the handler after the finally clause
Except(r) ==
    /\ runs[r].pc = "except"
    /\ \/ /\ runs' = [runs EXCEPT ![r].pc = "finally", ![r].status = "failed",
                                  ![r].trace = Called(r, "reply_error",
                                                      FailureText(runs[r].error), TRUE)]
          /\ UNCHANGED faults
       \/ /\ faults < MaxFaults
          /\ faults' = faults + 1
          /\ runs' = [runs EXCEPT ![r].pc = "finally", ![r].status = "raised",
                                  ![r].trace = Called(r, "reply_error",
                                                      FailureText(runs[r].error), FALSE)]
    /\ UNCHANGED <<storeVars, poolVars, commands>>

\* finally: if processing_msg: try: await processing_msg.delete(), except: logged
Finally(r) ==
    /\ runs[r].pc = "finally"
    /\ \/ /\ ~runs[r].processing_msg
          /\ runs' = [runs EXCEPT ![r].pc = "done"]
          /\ UNCHANGED faults
       \/ /\ runs[r].processing_msg
          /\ runs' = [runs EXCEPT ![r].pc = "done",
                                  ![r].trace = Called(r, "delete_processing", <<>>, TRUE)]
          /\ UNCHANGED faults
       \/ /\ runs[r].processing_msg
          /\ faults < MaxFaults
          /\ faults' = faults + 1
          /\ runs' = [runs EXCEPT ![r].pc = "done",
                                  ![r].trace = Called(r, "delete_processing", <<>>, FALSE)]
    /\ UNCHANGED <<storeVars, poolVars, commands>>

\* /setprompt <text>: await db.set_user_prompt(user_id, prompt), one transaction
set_prompt(u, prompt) ==
    /\ commands < MaxCommands
    /\ commands' = commands + 1
    /\ db' = Insert(DeleteSystem(db, u), u, "system", prompt, clock)
    /\ UNCHANGED <<clock, txn, pending, lastCall, poolVars, runs, faults>>

\* /clear: await db.clear_user_history(user_id)
clear(u) ==
    /\ commands < MaxCommands
    /\ commands' = commands + 1
    /\ db' = DeleteUser(db, u)
    /\ UNCHANGED <<clock, txn, pending, lastCall, poolVars, runs, faults>>

\* a step of a handle_message coroutine
RunStep ==
    \/ \E r \in RunIds, u \in Users, t \in Texts : handle_message(r, u, "text", t)
    \/ \E r \in RunIds, u \in Users : handle_message(r, u, "voice", "")
    \/ \E r \in RunIds, u \in Users : handle_message(r, u, "other", "")
    \/ \E r \in RunIds : ReplyProcessing(r)
    \/ \E r \in RunIds : GetFile(r)
    \/ \E r \in RunIds : ProcessVoiceNote(r)
    \/ \E r \in RunIds : ReplyTranscription(r)
    \/ \E r \in RunIds : AddUserMessage(r)
    \/ \E r \in RunIds : GetUserPrompt(r)
    \/ \E r \in RunIds : GetConversationHistory(r)
    \/ \E r \in RunIds : EditThinking(r)
    \/ \E r \in RunIds : GetClaudeResponse(r)
    \/ \E r \in RunIds : AddAssistantMessage(r)
    \/ \E r \in RunIds : ReplyResponse(r)
    \/ \E r \in RunIds : Except(r)
    \/ \E r \in RunIds : Finally(r)

\* handlers interleave at their awaits (spec.md 5)
Next ==
    \/ RunStep
    \/ \E u \in Users, p \in Prompts : set_prompt(u, p)
    \/ \E u \in Users : clear(u)
    \/ Tick

Spec == Init /\ [][Next]_vars

\* no handle_message coroutine is suspended
Quiet == \A r \in RunIds : runs[r].pc \in {"idle", "done"}

\* the Application as main() builds it, without concurrent_updates: an update is
\* handled only after the handler of the one before it has returned
NextSerial ==
    \/ RunStep
    \/ \E u \in Users, p \in Prompts : Quiet /\ set_prompt(u, p)
    \/ \E u \in Users : Quiet /\ clear(u)
    \/ Tick

SpecSerial == Init /\ [][NextSerial]_vars

\* what a handle_message coroutine for a text does after it was called
Resume(r) ==
    \/ ReplyProcessing(r)
    \/ AddUserMessage(r)
    \/ GetUserPrompt(r)
    \/ GetConversationHistory(r)
    \/ EditThinking(r)
    \/ GetClaudeResponse(r)
    \/ AddAssistantMessage(r)
    \/ ReplyResponse(r)
    \/ Except(r)
    \/ Finally(r)

\* two texts of user 1, each handled as soon as it arrives: the coroutines
\* interleave at their awaits (spec.md 5)
NextConcurrent ==
    \/ \E r \in Updates : handle_message(r, 1, "text", Said[r])
    \/ \E r \in Updates : Resume(r)
    \/ Tick

SpecConcurrent == Init /\ [][NextConcurrent]_vars

\* two texts of user 1, the second handled after the handler of the first has
\* returned
NextSuccessive ==
    \/ handle_message(1, 1, "text", Said[1])
    \/ runs[1].pc = "done" /\ handle_message(2, 1, "text", Said[2])
    \/ \E r \in Updates : Resume(r)
    \/ Tick

SpecSuccessive == Init /\ [][NextSuccessive]_vars

\* the event loop resumes a suspended coroutine once the call it awaits has
\* returned or raised, and every awaited call does one or the other in the end
SpecFair == Spec /\ WF_vars(RunStep)

(***************************************************************************)
(* The pipeline's contract (spec.md 4.3, 7, 8).                            *)
(***************************************************************************)
IsPrefix(a, b) == Len(a) <= Len(b) /\ a = SubSeq(b, 1, Len(a))

Names(t) == [i \in 1..Len(t) |-> t[i].call]

Calls(r, names) == SelectSeq(runs[r].trace, LAMBDA e : e.call \in names)

StageOrder == <<"add_user", "get_prompt", "get_history", "complete", "add_assistant",
                "reply_response">>

\* C6: the stages of a run happen in the order AppendMessage(user), GetSystemPrompt,
\* GetHistory, complete, AppendMessage(assistant), reply, none of them twice; a run
\* that succeeds has made each of them exactly once, each having returned, with the
\* text, context and response of that run.
C6_StagesInOrder ==
    \A r \in RunIds :
        LET c == Calls(r, Range(StageOrder)) IN
        /\ IsPrefix(Names(c), StageOrder)
        /\ \A i \in 1..Len(c) : i < Len(c) => c[i].ok
        /\ runs[r].status = "ok"
               => /\ Names(c) = StageOrder
                  /\ \A i \in 1..Len(c) : c[i].ok
                  /\ c[1].arg = runs[r].user_input
                  /\ c[4].arg = [history |-> c[3].arg, system |-> c[2].arg]
                  /\ c[5].arg = runs[r].response
                  /\ c[6].arg = <<runs[r].response>>

\* a run has delivered its response and returned
C6_Witness == \E r \in RunIds : runs[r].status = "ok" /\ runs[r].pc = "done"

\* C7: the history a run with text input t passes to complete is non-empty and
\* ends with {role: user, content: t}.
C7_HistoryEndsWithInput ==
    \A r \in RunIds :
        runs[r].kind = "text"
            => \A i \in 1..Len(runs[r].trace) :
                   runs[r].trace[i].call = "complete"
                       => LET h == runs[r].trace[i].arg.history IN
                          /\ h # <<>>
                          /\ h[Len(h)] = [role |-> "user", content |-> runs[r].user_input]

Transcriptions(r) == Calls(r, {"transcribe"})

Persists(r) == Calls(r, {"add_user", "add_assistant"})

\* every AppendMessage call of voice run r comes after its one call of the
\* Transcriber has returned, the user message it persists is the text the
\* Transcriber returned, and a run whose transcription failed persists nothing
PersistsTranscription(r) ==
    /\ Len(Transcriptions(r)) <= 1
    /\ Persists(r) # <<>>
           => /\ Len(Transcriptions(r)) = 1
              /\ Transcriptions(r)[1].ok
              /\ Names(SubSeq(runs[r].trace, 1, 3))
                     = <<"reply_processing", "get_file", "transcribe">>
              /\ Persists(r)[1].call = "add_user"
              /\ Persists(r)[1].arg = Transcriptions(r)[1].arg
    /\ (Transcriptions(r) # <<>> /\ ~Transcriptions(r)[1].ok) => Persists(r) = <<>>

FileLookedUp(r) ==
    \E i \in 1..Len(runs[r].trace) :
        runs[r].trace[i].call = "get_file" /\ runs[r].trace[i].ok

CompletionRaised(r) ==
    \E i \in 1..Len(runs[r].trace) :
        runs[r].trace[i].call = "complete" /\ ~runs[r].trace[i].ok

\* C9: when CompletionProvider raises, the run makes no AppendMessage(assistant)
\* call and no reply with a response; it sends the transport one failure
\* notification whose text contains the error text, and after it asks the transport
\* to delete the processing indicator.
C9_CompletionFailure ==
    \A r \in RunIds :
        CompletionRaised(r)
            => /\ Calls(r, {"add_assistant", "reply_response"}) = <<>>
               /\ runs[r].response = ""
               /\ Len(Calls(r, {"reply_error"})) <= 1
               /\ \A i \in 1..Len(runs[r].trace) :
                      runs[r].trace[i].call = "reply_error"
                          => Contains(runs[r].trace[i].arg, ClaudeError(AnthropicError))
               /\ runs[r].pc = "done"
                      => Names(Calls(r, {"complete", "reply_error", "delete_processing"}))
                             = <<"complete", "reply_error", "delete_processing">>

\* a run whose completion call raised has ended after notifying the user
C9_Witness ==
    \E r \in RunIds :
        /\ CompletionRaised(r) /\ runs[r].pc = "done" /\ runs[r].status = "failed"
        /\ \E i \in 1..Len(db) : db[i].role = "user"

Deletions(r) == Calls(r, {"delete_processing"})

\* C10: a run that created a processing indicator ends, having asked for its removal
\* exactly once, as its last call, on whatever path it ends; whether that removal
\* succeeds changes neither the outcome of the run nor what was persisted or sent.
C10_CleanupOnEveryPath ==
    /\ \A r \in RunIds :
           runs[r].processing_msg ~> (runs[r].pc = "done" /\ Len(Deletions(r)) = 1)
    /\ [](\A r \in RunIds :
              /\ Len(Deletions(r)) = IF runs[r].processing_msg /\ runs[r].pc = "done"
                                     THEN 1 ELSE 0
              /\ Deletions(r) # <<>>
                     => runs[r].trace[Len(runs[r].trace)].call = "delete_processing"
              /\ runs[r].pc = "done" => runs[r].status \in {"ok", "noop", "failed", "raised"})
    /\ [][\A r \in RunIds :
              (runs[r].pc = "finally" /\ runs'[r] # runs[r])
                  => /\ runs'[r].pc = "done"
                     /\ db' = db
                     /\ [runs'[r] EXCEPT !.pc = "finally", !.trace = runs[r].trace] = runs[r]
                     /\ IsPrefix(runs[r].trace, runs'[r].trace)
                     /\ Len(runs'[r].trace) <= Len(runs[r].trace) + 1]_vars

\* the failure notification could not be delivered either, and the removal of the
\* indicator, attempted all the same, failed too
C10_Witness ==
    \E r \in RunIds :
        /\ runs[r].pc = "done" /\ runs[r].status = "raised" /\ runs[r].processing_msg
        /\ Len(Deletions(r)) = 1 /\ ~Deletions(r)[1].ok

(***************************************************************************)
(* Failures of a run (spec.md 4.3, 7), under Spec.                         *)
(***************************************************************************)
\* the calls spec.md 4.3 names as stages that fail the run
Stages == {"reply_processing", "transcribe", "add_user", "get_prompt", "get_history",
           "complete", "add_assistant", "reply_response"}

\* the calls of the finally and except clauses
Closing == {"reply_error", "delete_processing"}

StageFailed(r) ==
    \E i \in 1..Len(runs[r].trace) :
        runs[r].trace[i].call \in Stages /\ ~runs[r].trace[i].ok

\* C11: when a stage of a run fails (indicator, transcription, either AppendMessage,
\* GetSystemPrompt, GetHistory, completion, final reply) no later stage is called,
\* no completion response is delivered, the run delivers exactly one failure
\* notification, and no exception leaves the handler.
C11_FailureNotifiedOnce ==
    \A r \in RunIds :
        StageFailed(r)
            => /\ \A i, j \in 1..Len(runs[r].trace) :
                      (runs[r].trace[i].call \in Stages /\ ~runs[r].trace[i].ok /\ i < j)
                          => runs[r].trace[j].call \in Closing
               /\ \A i \in 1..Len(runs[r].trace) :
                      runs[r].trace[i].call = "reply_response" => ~runs[r].trace[i].ok
               /\ runs[r].pc = "done"
                      => /\ Len(Calls(r, {"reply_error"})) = 1
                         /\ Calls(r, {"reply_error"})[1].ok
                         /\ runs[r].status # "raised"

TranscriptionNotificationFailed(r) ==
    \E i \in 1..Len(runs[r].trace) :
        runs[r].trace[i].call = "reply_transcription" /\ ~runs[r].trace[i].ok

\* C12: a voice run whose transcription notification could not be delivered goes
\* on: unless another call fails, it persists the user message, calls the
\* completion, persists the response and delivers it.
C12_TranscriptionNotificationNonFatal ==
    \A r \in RunIds :
        (/\ runs[r].kind = "voice"
         /\ TranscriptionNotificationFailed(r)
         /\ runs[r].pc = "done"
         /\ \A i \in 1..Len(runs[r].trace) :
                runs[r].trace[i].ok \/ runs[r].trace[i].call = "reply_transcription")
            => /\ Names(Calls(r, Range(StageOrder))) = StageOrder
               /\ runs[r].status = "ok"

\* C13: a run whose update is neither a text nor a voice note ends without having
\* made any call (to the store, the Transcriber, the CompletionProvider or the
\* transport), and none of its steps changes the table.
C13_OtherInputNoEffect ==
    /\ [](\A r \in RunIds :
              runs[r].kind = "other"
                  => /\ runs[r].trace = <<>>
                     /\ ~runs[r].processing_msg
                     /\ runs[r].pc \in {"finally", "done"}
                     /\ runs[r].status = "noop")
    /\ [][\A r \in RunIds :
              (runs'[r].kind = "other" /\ runs'[r] # runs[r])
                  => (db' = db /\ faults' = faults)]_vars

\* an update that is neither text nor voice was handled while the table held rows
C13_Witness ==
    \E r \in RunIds :
        runs[r].kind = "other" /\ runs[r].pc = "done" /\ db # <<>>

FinalReplyFailed(r) ==
    \E i \in 1..Len(runs[r].trace) :
        runs[r].trace[i].call = "reply_response" /\ ~runs[r].trace[i].ok

\* C20: the response is persisted before it is delivered.  The final reply is
\* called only after AppendMessage(assistant) has returned, having appended the
\* assistant row with the response; when the final reply fails, neither that step
\* nor any later step of the run touches the table, so the row stays, and the run
\* sends one failure notification carrying the transport's error.
C20_PersistedBeforeDelivered ==
    /\ [](\A r \in RunIds :
              /\ Calls(r, {"reply_response"}) # <<>>
                     => /\ Len(Calls(r, {"add_assistant"})) = 1
                        /\ Calls(r, {"add_assistant"})[1].ok
                        /\ Names(Calls(r, {"add_assistant", "reply_response"}))
                               = <<"add_assistant", "reply_response">>
              /\ (FinalReplyFailed(r) /\ runs[r].pc \in {"finally", "done"})
                     => /\ runs[r].status \in {"failed", "raised"}
                        /\ Len(Calls(r, {"reply_error"})) = 1
                        /\ Calls(r, {"reply_error"})[1].arg = FailureText(TelegramError)
                        /\ Names(Calls(r, {"add_assistant", "reply_response", "reply_error"}))
                               = <<"add_assistant", "reply_response", "reply_error">>)
    /\ [][\A r \in RunIds :
              /\ (runs[r].pc = "add_assistant" /\ runs'[r].pc = "reply_response")
                     => db' = Append(db, [id |-> NextId(db), user_id |-> runs[r].user,
                                          role |-> "assistant",
                                          content |-> runs[r].response,
                                          timestamp |-> clock])
              /\ (runs[r].pc \in {"reply_response", "except", "finally"}
                      /\ runs'[r] # runs[r])
                     => db' = db]_vars

\* the final reply failed, the user was sent the failure notification instead, and
\* the response is the last row of the table
C20_Witness ==
    \E r \in RunIds :
        /\ FinalReplyFailed(r) /\ runs[r].pc = "done" /\ runs[r].status = "failed"
        /\ db # <<>>
        /\ db[Len(db)].role = "assistant" /\ db[Len(db)].content = runs[r].response
        /\ db[Len(db)].user_id = runs[r].user

(***************************************************************************)
(* Deletion and row ids (spec.md 3), under SpecStore.                      *)
(***************************************************************************)
\* C14: ClearHistory(U) deletes the rows of every role: once it has returned,
\* GetHistory(U, N) can only return the empty list, for every N, and
\* GetSystemPrompt(U) can only return the absent value, also when U had a prompt.
C14_ClearDeletesEveryRole ==
    Returned("clear_user_history")
        => /\ \A n \in Limits : HistoryResults(db, lastCall.user, n) = {<<>>}
           /\ PromptResults(db, lastCall.user) = {NoneVal}
           /\ SystemRows(db, lastCall.user) = <<>>

\* ClearHistory(U) has just returned for a user who had a prompt and a message
C14_Witness ==
    /\ Returned("clear_user_history")
    /\ \E i \in 1..Len(lastCall.before) : lastCall.before[i].role = "system"
    /\ \E i \in 1..Len(lastCall.before) : lastCall.before[i].role = "user"

\* the step is an INSERT of add_message or of set_user_prompt
InsertStep ==
    \/ txn = NoTxn /\ txn'.op = "add_message"
    \/ txn.op = "set_user_prompt" /\ txn.pc = "insert" /\ txn'.pc = "commit"

\* C15: ids are unique and assigned monotonically: every newly inserted row gets
\* an id greater than every id the store has assigned before, so greater than the
\* id of every row of the committed table, also of those its own transaction has
\* deleted; no two rows share an id.
C15_IdsNeverReused ==
    /\ [](\A i, j \in 1..Len(db) : i # j => db[i].id # db[j].id)
    /\ [][InsertStep
              => \A row \in Range(db) \cup Range(pending) :
                     pending'[Len(pending')].id > row.id]_vars

(***************************************************************************)
(* The context of a run (spec.md 3, 9), one update handled at a time.      *)
(***************************************************************************)
SystemEntries(h) == SelectSeq(h, LAMBDA m : m.role = "system")

\* C16: GetHistory does not filter by role.  The history a run fetches holds the
\* system row of its user, so whenever the run calls complete with a prompt p as
\* the system argument, the history argument holds {role: system, content: p} as
\* well, once; a run of a user without a prompt passes no system entry.
C16_PromptPassedTwice ==
    /\ [](\A r \in RunIds :
              \A i \in 1..Len(runs[r].trace) :
                  runs[r].trace[i].call = "complete"
                      => LET a == runs[r].trace[i].arg IN
                         SystemEntries(a.history) =
                             IF a.system = NoneVal THEN <<>>
                             ELSE <<[role |-> "system", content |-> a.system]>>)
    /\ [][\A r \in RunIds :
              (runs[r].pc = "get_history" /\ runs'[r].pc = "edit_thinking")
                  => SystemEntries(runs'[r].conversation_history)
                         = Messages(SystemRows(db, runs[r].user))]_vars

\* a run has called complete with the prompt "A" both as the system argument and
\* as an entry of the history, beside the user's message
C16_Witness ==
    \E r \in RunIds :
        /\ runs[r].status = "ok" /\ runs[r].pc = "done"
        /\ \E i \in 1..Len(runs[r].trace) :
               /\ runs[r].trace[i].call = "complete"
               /\ runs[r].trace[i].arg.system = "A"
               /\ [role |-> "system", content |-> "A"] \in Range(runs[r].trace[i].arg.history)
               /\ [role |-> "user", content |-> runs[r].user_input]
                      \in Range(runs[r].trace[i].arg.history)

(***************************************************************************)
(* Two updates of one user (spec.md 5), under SpecConcurrent and           *)
(* SpecSuccessive.                                                         *)
(***************************************************************************)
AssistantEntries(h) == SelectSeq(h, LAMBDA m : m.role = "assistant")

Roles(t) == [i \in 1..Len(t) |-> t[i].role]

\* run r has persisted its user message and not yet its response
AwaitingReply(r) ==
    runs[r].pc \in {"get_prompt", "get_history", "edit_thinking", "complete",
                    "add_assistant"}

FailedAfterPersist(r) ==
    /\ runs[r].pc = "done"
    /\ runs[r].status \in {"failed", "raised"}
    /\ \E i \in 1..Len(runs[r].trace) :
           runs[r].trace[i].call = "add_user" /\ runs[r].trace[i].ok

\* C19: the user message of a failed run is not rolled back: it stays in the
\* table, and the history the next run of that user passes to complete holds it,
\* before the new message.
C19_UnansweredMessageKept ==
    FailedAfterPersist(1)
        => /\ \E i \in 1..Len(db) : db[i].role = "user" /\ db[i].content = Said[1]
           /\ \A k \in 1..Len(runs[2].trace) :
                  runs[2].trace[k].call = "complete"
                      => LET h == runs[2].trace[k].arg.history IN
                         \E i, j \in 1..Len(h) :
                             /\ i < j
                             /\ h[i] = [role |-> "user", content |-> Said[1]]
                             /\ h[j] = [role |-> "user", content |-> Said[2]]

(***************************************************************************)
(* The connections (spec.md 4.1, 5): each method of ConversationDB hands   *)
(* its inner function to the default executor of the event loop; the inner *)
(* function gets the connection of the thread it runs on from _get_conn,   *)
(* executes its statements on it and leaves `with conn`.                   *)
(***************************************************************************)
\* await loop.run_in_executor(None, inner): a worker thread without work takes the
\* inner function of the method; none is submitted once main() has closed the db
run_in_executor(w, method) ==
    /\ local[MainThread] # 0
    /\ job[w] = NoJob
    /\ job' = [job EXCEPT ![w] = [method |-> method, pc |-> "get_conn", conn |-> 0]]
    /\ UNCHANGED <<storeVars, pipeVars, local, conns>>

\* a _get_conn that keeps the connection in an attribute of the ConversationDB, the
\* same for every thread
GetConnShared(w) ==
    /\ job[w].pc = "get_conn"
    /\ job' = [job EXCEPT ![w].pc = "execute", ![w].conn = local[MainThread]]
    /\ UNCHANGED <<storeVars, pipeVars, local, conns>>

\* _get_conn on worker w: if not hasattr(self._local, 'conn'): connect
GetConn(w) ==
    /\ job[w].pc = "get_conn"
    /\ IF local[w] = 0
       THEN /\ conns' = Connect(w)
            /\ local' = [local EXCEPT ![w] = Len(conns) + 1]
       ELSE UNCHANGED <<local, conns>>
    /\ job' = [job EXCEPT ![w].pc = "execute", ![w].conn = local'[w]]
    /\ UNCHANGED <<storeVars, pipeVars>>

\* conn.execute(...) on the connection _get_conn returned
Execute(w) ==
    /\ job[w].pc = "execute"
    /\ conns' = [conns EXCEPT ![job[w].conn].users = @ \cup {w}]
    /\ job' = [job EXCEPT ![w].pc = "exit"]
    /\ UNCHANGED <<storeVars, pipeVars, local>>

\* the inner function leaves `with conn` and returns: the worker is free again
Leave(w) ==
    /\ job[w].pc = "exit"
    /\ job' = [job EXCEPT ![w] = NoJob]
    /\ UNCHANGED <<storeVars, pipeVars, local, conns>>

\* db.close() in the finally clause of main(), on the main thread: closes and
\* forgets the connection of that thread only
close ==
    /\ local[MainThread] # 0
    /\ conns' = [conns EXCEPT ![local[MainThread]].closed = TRUE]
    /\ local' = [local EXCEPT ![MainThread] = 0]
    /\ UNCHANGED <<storeVars, pipeVars, job>>

NextPool ==
    \/ \E w \in Workers, m \in Methods : run_in_executor(w, m)
    \/ \E w \in Workers : GetConn(w)
    \/ \E w \in Workers : Execute(w)
    \/ \E w \in Workers : Leave(w)
    \/ close

SpecPool == Init /\ [][NextPool]_vars

\* the connections thread t has created and not closed
Held(t) == {c \in 1..Len(conns) : conns[c].by = t /\ ~conns[c].closed}

\* C18: every store operation runs on the connection the worker executing it has
\* created; no connection is used by a thread other than its creator, nor named
\* by two threads; a thread holds at most one open connection, and a worker
\* creates one connection in all.
C18_ConnectionPerWorker ==
    /\ \A w \in Workers :
           job[w].pc \in {"execute", "exit"}
               => /\ job[w].conn \in 1..Len(conns)
                  /\ conns[job[w].conn].by = w
                  /\ ~conns[job[w].conn].closed
                  /\ job[w].conn = local[w]
    /\ \A c \in 1..Len(conns) : conns[c].users \subseteq {conns[c].by}
    /\ \A t, u \in Threads : (t # u /\ local[t] # 0) => local[t] # local[u]
    /\ \A t \in Threads : Cardinality(Held(t)) <= 1
    /\ \A w \in Workers : Cardinality({c \in 1..Len(conns) : conns[c].by = w}) <= 1

\* both workers are executing at once, each on its own connection, one of them on
\* a connection it has used for an earlier operation
C18_Witness ==
    /\ \A w \in Workers : job[w].pc = "execute"
    /\ job[1].conn # job[2].conn
    /\ conns[job[1].conn].users = {1}
    /\ conns[job[2].conn].users = {}

====
